---- MODULE Spec2Model ----
(***************************************************************************)
(* Race-lifecycle state machine of the fz racing game.                     *)
(*                                                                         *)
(* The server (src/src/server.rs) owns one ship record per connected       *)
(* client and runs five systems per tick, in the order in which            *)
(* ServerState::new registers them: conn_update (stage PreUpdate), then    *)
(* kinematics_update, client_state_update, win_reset and ship_update.      *)
(* The clients (src/src/client.rs) toggle readiness, react to StartRace    *)
(* and report Finished.                                                    *)
(*                                                                         *)
(* Numbers: f32 times are modelled by integers.  A Transform is reduced to *)
(* one position coordinate and one rotation angle, a KinematicPhysics to   *)
(* the velocity and angular velocity along the same axis plus mass and     *)
(* moment.                                                                 *)
(***************************************************************************)
EXTENDS Integers, Sequences, FiniteSets, TLC

\* ------------------------------------------------------------------ bounds
NumClients == 2
MaxTime == 125
MaxMsgs == 2
MaxChan == 1
MaxClientTime == 11
MaxX == 3
MaxLen == 3
MaxCalls == 3

\* ------------------------------------------------------- program constants
RESET_TIME == 50
N_LAPS == 3
FINISH_LINE_INDEX == 10
F32_EXACT == 16777216
F32_MAX == 2147483647

\* --------------------------------------------------------------- input sets
Clients == 1..NumClients
Deltas == {25, 50}
FinishTimes == {9, 12}

Min(S) == CHOOSE x \in S : \A y \in S : x <= y

None == <<>>
Some(x) == <<x>>

\* Transform::identity() and KinematicPhysics::default()
TfIdentity == [pos |-> 0, orient |-> 0]
KinDefault == [vel |-> 0, ang_vel |-> 0, mass |-> 0, moment |-> 0]

UpTfs == {[pos |-> 3, orient |-> 1], [pos |-> 7, orient |-> 0]}
UpKts == {[vel |-> 1, ang_vel |-> 1, mass |-> 1, moment |-> 1]}

\* Sequences over S of length at most n
RECURSIVE SeqsUpTo(_, _)
SeqsUpTo(S, n) ==
  IF n = 0 THEN {<<>>}
  ELSE LET shorter == SeqsUpTo(S, n - 1)
       IN shorter \cup {Append(s, x) : s \in {t \in shorter : Len(t) = n - 1}, x \in S}

\* All orders in which a query can visit the elements of a finite set
RECURSIVE Orders(_)
Orders(S) ==
  IF S = {} THEN {<<>>}
  ELSE UNION {{<<x>> \o r : r \in Orders(S \ {x})} : x \in S}

ReadyMsg == [client : Clients, ready : BOOLEAN]
FinishedMsg == [client : Clients, time : FinishTimes]
UploadMsg == [client : Clients, tf : UpTfs, kt : UpKts]

VARIABLES
  ships,            \* the ServerShipComponent entities, kept in client-id order
  winner,           \* ServerState.winner
  reset_countdown,  \* ServerState.reset_countdown
  frame,            \* the FrameTime of the current server tick, or None
  server_clock,     \* the host's clock, source of FrameTime.time
  pc,               \* the next server system to run in the current tick
  watch,            \* the message type whose inboxes the history records
  inbox,            \* history: the messages read by the system that ran last,
                    \* if it read a roster or messages of the watched type
  sent,             \* the StartRace messages sent in the current tick
  least,            \* history: the first and the least finish time processed
                    \* since the winner record was last empty, or None;
                    \* while Race is watched, the finish times received
                    \* from racing clients since the last race start
  tick_start,       \* history: the ship entities as the current tick found
                    \* them, while the tick runs and ShipUpload is watched;
                    \* while Tick is watched, what conn_update of the
                    \* current tick read and the client ids it found
  writes,           \* history: the component writes of the current tick,
                    \* while ShipUpload is watched
  connected,        \* the clients the host lists in the Connections roster
  mode,             \* ClientState.mode of every client
  c2s,              \* per client, its messages on the way to the server
  tick_inbox,       \* the client messages delivered to the current tick
  s2c,              \* per client, the StartRace messages on the way to it
  client,           \* one client process: the fields mode, countdown and
                    \* last_ship_pos of its ClientState
  ship_ent,         \* that client's local ship entity (ClientState.ship_ent)
  client_pc,        \* the next system of that client to run in its frame
  client_frame,     \* the FrameTime of that client's current frame, or None
  client_clock,     \* the clock of that client's host
  client_inbox,     \* what the host delivered to that client's current frame
  outbox,           \* the messages that client has sent in its current frame
  path,             \* a Curve built by Curve::new, or None
  body,             \* an entity with a Transform and a KinematicPhysics, or None
  call              \* history: the last call of a curve, kinematics or
                    \* controller function, with its arguments and result

server_vars == <<ships, winner, reset_countdown, frame, server_clock, pc, watch,
                 inbox, sent, least, tick_start, writes>>
net_vars == <<connected, mode, c2s, tick_inbox, s2c>>
local_vars == <<client, ship_ent, client_pc, client_frame, client_clock,
                client_inbox, outbox>>
lib_vars == <<path, body, call>>
vars == <<server_vars, net_vars, local_vars, lib_vars>>

Unwatched == [kind |-> "unwatched", msgs |-> <<>>]

Record(kind, msgs) ==
  IF kind \in {watch, "Connections"} THEN [kind |-> kind, msgs |-> msgs]
  ELSE Unwatched

\* The writes of one system: the given fields of the ship entities of ids
Written(system, ids, fields) ==
  IF watch = "ShipUpload"
  THEN writes \cup {[system |-> system, client_id |-> c, field |-> f] :
                      c \in ids, f \in fields}
  ELSE writes

\* --------------------------------------------------------------- conn_update
ClientIds(sh) == {sh[i].client_id : i \in DOMAIN sh}

\* variant: a new ship entity joins the race in progress
NewShip_racing(c) ==
  [client_id |-> c, is_racing |-> TRUE, is_ready |-> FALSE,
   tf |-> TfIdentity, kt |-> KinDefault]

\* server.rs 206-216: the components of a new ship entity
NewShip(c) ==
  [client_id |-> c, is_racing |-> FALSE, is_ready |-> FALSE,
   tf |-> TfIdentity, kt |-> KinDefault]

\* server.rs 187-193: entities of clients absent from the roster are removed
RemoveDisconnected(sh, current_connections) ==
  SelectSeq(sh, LAMBDA s : s.client_id \in current_connections)

\* variant: every roster entry counts as a new connection
new_connections_all(sh, current_connections) == current_connections

\* server.rs 195-202: roster entries that have no entity yet
new_connections(sh, current_connections) ==
  current_connections \ ClientIds(sh)

\* The entity store: the model keeps the ship entities in client-id order
\* (an entity added for an id that is already present comes after it); the
\* order in which a query visits them is chosen where it matters.
AddEntity(sh, s) ==
  LET k == Cardinality({i \in DOMAIN sh : sh[i].client_id <= s.client_id})
  IN SubSeq(sh, 1, k) \o <<s>> \o SubSeq(sh, k + 1, Len(sh))

\* server.rs 204-218: one new ship entity per new connection
RECURSIVE CreateShips(_, _)
CreateShips(sh, new) ==
  IF new = {} THEN sh
  ELSE LET c == CHOOSE x \in new : TRUE
       IN CreateShips(AddEntity(sh, NewShip(c)), new \ {c})

conn_update(roster) ==
  /\ pc = "conn_update"
  /\ inbox' = Record("Connections", roster)
  /\ ships' = IF roster = None
              THEN ships
              ELSE CreateShips(RemoveDisconnected(ships, roster[1]),
                               new_connections(ships, roster[1]))
  /\ tick_start' = IF watch = "Tick"
                   THEN Some([roster |-> roster, before |-> ClientIds(ships)])
                   ELSE tick_start
  /\ pc' = "kinematics_update"
  /\ UNCHANGED <<winner, reset_countdown, frame, server_clock, sent, least, watch,
                 writes>>

\* --------------------------------------------------------- kinematics_update
\* kinematics.rs 43-51: one integration step of one entity
Integrate(s, dt) ==
  [s EXCEPT !.tf = [pos |-> s.tf.pos + s.kt.vel * dt,
                    orient |-> s.tf.orient + s.kt.ang_vel * dt]]

simulate(sh, dt) == [i \in DOMAIN sh |-> Integrate(sh[i], dt)]

\* The "Kinematics" query selects every entity carrying a Transform and a
\* KinematicPhysics; the ship entities created by conn_update carry both.
kinematics_update ==
  /\ pc = "kinematics_update"
  /\ inbox' = Record("FrameTime", frame)
  /\ ships' = IF frame = None THEN ships ELSE simulate(ships, frame[1].delta)
  /\ writes' = IF frame = None THEN writes
               ELSE Written("kinematics_update", ClientIds(ships), {"Transform"})
  /\ pc' = "client_state_update"
  /\ UNCHANGED <<winner, reset_countdown, frame, server_clock, sent, least, watch,
                 tick_start>>

\* ------------------------------------------------------- client_state_update
\* server.rs 133-142: one ClientReady is applied to the sender's record
ApplyReady(sh, m) ==
  [i \in DOMAIN sh |->
     IF sh[i].client_id = m.client
     THEN [sh[i] EXCEPT !.is_ready = m.ready]
     ELSE sh[i]]

RECURSIVE UpdateReadyStates(_, _)
UpdateReadyStates(sh, msgs) ==
  IF msgs = <<>> THEN sh
  ELSE UpdateReadyStates(ApplyReady(sh, Head(msgs)), Tail(msgs))

all_ready(sh) == \A i \in DOMAIN sh : sh[i].is_ready
any_ready(sh) == \E i \in DOMAIN sh : sh[i].is_ready

\* variant: the race starts as soon as one ship is ready
StartCondition_anyOnly(sh) == any_ready(sh)

\* server.rs 156
StartCondition(sh) == any_ready(sh) /\ all_ready(sh)

\* server.rs 158, 171-172: the spawn transform of the k-th ship visited
RECURSIVE SpawnPosition(_)
SpawnPosition(k) ==
  IF k = 0 THEN [x |-> 0, y |-> 0, z |-> -5]
  ELSE LET p == SpawnPosition(k - 1)
       IN [x |-> p.x - 5, y |-> p.y, z |-> -p.z]

\* variant: every ship is sent the first spawn transform
StartRaceMsgs_oneSpot(sh, order) ==
  [k \in DOMAIN order |->
     [to |-> sh[order[k]].client_id, client_id |-> sh[order[k]].client_id,
      position |-> SpawnPosition(0)]]

\* server.rs 160-169: one StartRace per ship entity; order[k] is the entity
\* the loop visits in its k-th iteration
StartRaceMsgs(sh, order) ==
  [k \in DOMAIN order |->
     [to |-> sh[order[k]].client_id, client_id |-> sh[order[k]].client_id,
      position |-> SpawnPosition(k - 1)]]

\* server.rs 174-177
MarkRacing(sh) ==
  [i \in DOMAIN sh |-> [sh[i] EXCEPT !.is_ready = FALSE, !.is_racing = TRUE]]

client_state_update(msgs) ==
  /\ pc = "client_state_update"
  /\ inbox' = Record("ClientReady", msgs)
  /\ LET updated == UpdateReadyStates(ships, msgs)
     IN IF StartCondition(updated)
        THEN /\ \E order \in Orders(DOMAIN updated) :
                  sent' = sent \o StartRaceMsgs(updated, order)
             /\ ships' = MarkRacing(updated)
             /\ writes' = Written("client_state_update", ClientIds(ships),
                                  {"is_ready", "is_racing"})
        ELSE /\ sent' = sent
             /\ ships' = updated
             /\ writes' = Written("client_state_update",
                                  {msgs[k].client : k \in DOMAIN msgs}
                                    \cap ClientIds(ships),
                                  {"is_ready"})
  /\ least' = IF watch = "Race" /\ StartCondition(UpdateReadyStates(ships, msgs))
              THEN Some({})
              ELSE least
  /\ pc' = "win_reset"
  /\ UNCHANGED <<winner, reset_countdown, frame, server_clock, watch,
                 tick_start>>

\* ----------------------------------------------------------------- win_reset
\* variant: a Finished event stops every ship
MarkFinished_all(sh, client_id) ==
  [i \in DOMAIN sh |-> [sh[i] EXCEPT !.is_racing = FALSE]]

\* variant: a Finished event flips the sender's flag
MarkFinished_toggle(sh, client_id) ==
  [i \in DOMAIN sh |->
     IF sh[i].client_id = client_id
     THEN [sh[i] EXCEPT !.is_racing = ~sh[i].is_racing]
     ELSE sh[i]]

\* server.rs 83-87
MarkFinished(sh, client_id) ==
  [i \in DOMAIN sh |->
     IF sh[i].client_id = client_id
     THEN [sh[i] EXCEPT !.is_racing = FALSE]
     ELSE sh[i]]

\* variant: the first finisher stays the winner
KeepsWinner_first(w, finish_time) == w # None

\* server.rs 90-95: the Finished event does not change the winner record
KeepsWinner(w, finish_time) ==
  w # None /\ finish_time > w[1].time

\* server.rs 81-99: one Finished event; st = [ships, winner, reset_countdown]
ProcessFinished(st, m, server_time) ==
  IF KeepsWinner(st.winner, m.time)
  THEN [st EXCEPT !.ships = MarkFinished(st.ships, m.client)]
  ELSE [ships |-> MarkFinished(st.ships, m.client),
        winner |-> Some([client_id |-> m.client, time |-> m.time]),
        reset_countdown |-> server_time + RESET_TIME]

RECURSIVE ProcessAllFinished(_, _, _)
ProcessAllFinished(st, msgs, server_time) ==
  IF msgs = <<>> THEN st
  ELSE ProcessAllFinished(ProcessFinished(st, Head(msgs), server_time),
                          Tail(msgs), server_time)

\* server.rs 102-105
anybody_racing(sh) == \E i \in DOMAIN sh : sh[i].is_racing

\* variant: the reset fires already when the deadline is reached
ResetCondition_atDeadline(w, deadline, sh, server_time) ==
  w # None /\ (server_time >= deadline \/ ~anybody_racing(sh))

\* variant: the reset waits for the deadline and for the last racer
ResetCondition_both(w, deadline, sh, server_time) ==
  w # None /\ (server_time > deadline /\ ~anybody_racing(sh))

\* server.rs 108-109
ResetCondition(w, deadline, sh, server_time) ==
  w # None /\ (server_time > deadline \/ ~anybody_racing(sh))

win_reset(msgs) ==
  /\ pc = "win_reset"
  /\ inbox' = Record("Finished", msgs)
  /\ IF frame = None
     THEN UNCHANGED <<ships, winner, reset_countdown, least, writes>>
     ELSE LET server_time == frame[1].time
              st == ProcessAllFinished(
                      [ships |-> ships, winner |-> winner,
                       reset_countdown |-> reset_countdown],
                      msgs, server_time)
          IN /\ ships' = st.ships
             /\ writes' = Written("win_reset",
                                  {msgs[k].client : k \in DOMAIN msgs}
                                    \cap ClientIds(ships),
                                  {"is_racing"})
             /\ reset_countdown' = st.reset_countdown
             /\ winner' = IF ResetCondition(st.winner, st.reset_countdown,
                                            st.ships, server_time)
                          THEN None
                          ELSE st.winner
             /\ least' =
                  IF watch = "Race"
                  THEN IF least = None THEN None
                       ELSE Some(least[1] \cup
                                 {msgs[k].time : k \in
                                    {j \in DOMAIN msgs :
                                       \E i \in DOMAIN ships :
                                          /\ ships[i].client_id = msgs[j].client
                                          /\ ships[i].is_racing}})
                  ELSE IF winner' = None THEN None
                  ELSE Some([first |-> IF least = None THEN msgs[1].time
                                       ELSE least[1].first,
                             min |-> Min({msgs[k].time : k \in DOMAIN msgs}
                                         \cup {least[k].min : k \in DOMAIN least})])
  /\ pc' = "ship_update"
  /\ UNCHANGED <<frame, server_clock, sent, watch, tick_start>>

\* --------------------------------------------------------------- ship_update
\* server.rs 118-119: collecting into a HashMap keeps, for each client, the
\* upload that comes last in the inbox
RECURSIVE LastUpload(_, _)
LastUpload(msgs, c) ==
  IF msgs = <<>> THEN None
  ELSE IF msgs[Len(msgs)].client = c THEN Some(msgs[Len(msgs)])
  ELSE LastUpload(SubSeq(msgs, 1, Len(msgs) - 1), c)

\* variant: the relay copies the transform but not the kinematic state
Relay_tfOnly(s, msgs) ==
  LET up == LastUpload(msgs, s.client_id)
  IN IF up = None THEN s ELSE [s EXCEPT !.tf = up[1].tf]

\* server.rs 121-127
Relay(s, msgs) ==
  LET up == LastUpload(msgs, s.client_id)
  IN IF up = None THEN s ELSE [s EXCEPT !.tf = up[1].tf, !.kt = up[1].kt]

ship_update(msgs) ==
  /\ pc = "ship_update"
  /\ inbox' = Record("ShipUpload", msgs)
  /\ ships' = [i \in DOMAIN ships |-> Relay(ships[i], msgs)]
  /\ writes' = Written("ship_update",
                       {msgs[k].client : k \in DOMAIN msgs} \cap ClientIds(ships),
                       {"Transform", "KinematicPhysics"})
  /\ tick_start' = <<>>
  /\ pc' = "frame"
  /\ UNCHANGED <<winner, reset_countdown, frame, server_clock, sent, least, watch>>

\* variant: the tick starts with the systems of the Update stage
StartTick_atUpdate ==
  /\ pc = "frame"
  /\ \E delta \in Deltas :
       /\ server_clock + delta <= MaxTime
       /\ server_clock' = server_clock + delta
       /\ frame' = Some([delta |-> delta, time |-> server_clock + delta])
  /\ sent' = <<>>
  /\ inbox' = Unwatched
  /\ tick_start' = IF watch = "ShipUpload" THEN ships ELSE <<>>
  /\ writes' = {}
  /\ pc' = "kinematics_update"
  /\ UNCHANGED <<ships, winner, reset_countdown, least, watch>>

\* The host starts a tick: it delivers the FrameTime of the tick.  The
\* systems run stage by stage and, within a stage, in the order of their
\* registration (server.rs 28-69): conn_update is the one system of
\* Stage::PreUpdate, the others follow in the Update stage.
StartTick ==
  /\ pc = "frame"
  /\ \E delta \in Deltas :
       /\ server_clock + delta <= MaxTime
       /\ server_clock' = server_clock + delta
       /\ frame' = Some([delta |-> delta, time |-> server_clock + delta])
  /\ sent' = <<>>
  /\ inbox' = Unwatched
  /\ tick_start' = IF watch = "ShipUpload" THEN ships ELSE <<>>
  /\ writes' = {}
  /\ pc' = "conn_update"
  /\ UNCHANGED <<ships, winner, reset_countdown, least, watch>>

BeginFrame == StartTick /\ UNCHANGED <<net_vars, local_vars, lib_vars>>

\* ------------------------------------------------------------------ clients
\* client.rs 33-46: GameMode
Spectator(ready) == [tag |-> "Spectator", ready |-> ready, lap |-> 0]
Racing(lap) == [tag |-> "Racing", ready |-> FALSE, lap |-> lap]

ClientReady(c, ready) == [type |-> "ClientReady", client |-> c, ready |-> ready]
Finished(c, time) == [type |-> "Finished", client |-> c, time |-> time]

\* client.rs 284-309: the ready button was clicked in this client frame
gui(c) ==
  /\ c \in connected
  /\ mode[c].tag = "Spectator"
  /\ Len(c2s[c]) < MaxChan
  /\ mode' = [mode EXCEPT ![c] = Spectator(~mode[c].ready)]
  /\ c2s' = [c2s EXCEPT ![c] = Append(@, ClientReady(c, ~mode[c].ready))]
  /\ UNCHANGED <<connected, tick_inbox, s2c>>

\* client.rs 440-454: a client frame whose inbox holds the next n StartRace
\* messages; inbox_first takes the first of them, the others are dropped
game_mode(c) ==
  /\ c \in connected
  /\ \E n \in 1..Len(s2c[c]) :
       s2c' = [s2c EXCEPT ![c] = SubSeq(@, n + 1, Len(@))]
  /\ mode' = [mode EXCEPT ![c] = Racing(0)]
  /\ UNCHANGED <<connected, c2s, tick_inbox>>

\* client.rs 497-521: a client frame in which motion_update finds the finish
\* line crossed (area_sanity_check && cross_over)
finish_line_crossed(c) ==
  /\ c \in connected
  /\ mode[c].tag = "Racing"
  /\ IF mode[c].lap + 1 > N_LAPS
     THEN /\ Len(c2s[c]) < MaxChan
          /\ \E elapsed \in FinishTimes :
               c2s' = [c2s EXCEPT ![c] = Append(@, Finished(c, elapsed))]
          /\ mode' = [mode EXCEPT ![c] = Spectator(FALSE)]
     ELSE /\ mode' = [mode EXCEPT ![c] = Racing(mode[c].lap + 1)]
          /\ c2s' = c2s
  /\ UNCHANGED <<connected, tick_inbox, s2c>>

\* The host: a client connects and its plugin is constructed
\* (client.rs 261-264), or a client disconnects.  A client id is given to a
\* new connection only once the server holds no ship of that id any more.
Connect(c) ==
  /\ c \notin connected
  /\ c \notin ClientIds(ships)
  /\ connected' = connected \cup {c}
  /\ mode' = [mode EXCEPT ![c] = Spectator(FALSE)]
  /\ UNCHANGED <<c2s, tick_inbox, s2c>>

Disconnect(c) ==
  /\ c \in connected
  /\ connected' = connected \ {c}
  /\ mode' = [mode EXCEPT ![c] = Spectator(FALSE)]
  /\ c2s' = [c2s EXCEPT ![c] = <<>>]
  /\ s2c' = [s2c EXCEPT ![c] = <<>>]
  /\ UNCHANGED tick_inbox

\* Client frames and host events happen between two server ticks: the
\* systems of a tick read only the inbox the tick started with, and what
\* they send leaves when the tick is over.
ClientStep ==
  /\ pc = "frame"
  /\ \E c \in Clients :
       \/ gui(c)
       \/ game_mode(c)
       \/ finish_line_crossed(c)
       \/ Connect(c)
       \/ Disconnect(c)
  /\ UNCHANGED <<server_vars, local_vars, lib_vars>>

OfType(msgs, type) == SelectSeq(msgs, LAMBDA m : m.type = type)

\* The StartRace messages of the tick that is over, addressed to client c
Outgoing(c) == SelectSeq(sent, LAMBDA m : m.to = c)

\* The messages of the clients in order, one client after the other
RECURSIVE Concat(_, _)
Concat(chan, order) ==
  IF order = <<>> THEN <<>>
  ELSE chan[Head(order)] \o Concat(chan, Tail(order))

\* The host starts a tick of the networked server.  The transport has
\* delivered the pending messages of some clients (a client's messages
\* arrive in the order sent; the others are still on their way), and the
\* StartRace messages of the tick that is over are on their way to the
\* clients that are still connected.
BeginFrameNet ==
  /\ StartTick
  /\ \A c \in Clients : Len(s2c[c]) + Len(Outgoing(c)) <= MaxChan
  /\ \E senders \in SUBSET {c \in Clients : c2s[c] # <<>>} :
       /\ \E order \in Orders(senders) : tick_inbox' = Concat(c2s, order)
       /\ c2s' = [c \in Clients |-> IF c \in senders THEN <<>> ELSE c2s[c]]
  /\ s2c' = [c \in Clients |->
               IF c \in connected THEN s2c[c] \o Outgoing(c) ELSE s2c[c]]
  /\ UNCHANGED <<connected, mode, local_vars, lib_vars>>

NetIdle == UNCHANGED <<connected, mode, c2s, s2c, local_vars, lib_vars>>

ConnStepNet ==
  conn_update(Some(connected)) /\ NetIdle /\ UNCHANGED tick_inbox
KinematicsStepNet == kinematics_update /\ NetIdle /\ UNCHANGED tick_inbox
ReadyStepNet ==
  /\ client_state_update(OfType(tick_inbox, "ClientReady"))
  /\ NetIdle /\ UNCHANGED tick_inbox
FinishStepNet ==
  /\ win_reset(OfType(tick_inbox, "Finished"))
  /\ NetIdle /\ UNCHANGED tick_inbox
\* the last system of the tick: the tick's inbox is dropped
RelayStepNet == ship_update(<<>>) /\ NetIdle /\ tick_inbox' = <<>>

\* ----------------------------------------------------------- client process
\* One client process in detail (src/src/client.rs).  Its systems run once
\* per frame in the order in which ClientState::new registers them; the
\* model has game_mode, animation, gui, kinematics_update, motion_update and
\* camera.  Of a position the model keeps the x coordinate in the frame of
\* the finish line and the index of the nearest control point of the track.
LocalId == 1
ClientDeltas == {1, 2}
Nears == {FINISH_LINE_INDEX, 13, 50}
Vels == {-2, 0, 2}
Orients == {0, 1}

Abs(n) == IF n < 0 THEN -n ELSE n

Pos(x, near) == [x |-> x, near |-> near]

\* client.rs 33-46: GameMode
GameMode_Spectator(watching, ready) ==
  [tag |-> "Spectator", watching |-> watching, ready |-> ready,
   client_id |-> 0, lap |-> 0]
GameMode_Racing(client_id, lap) ==
  [tag |-> "Racing", watching |-> None, ready |-> FALSE,
   client_id |-> client_id, lap |-> lap]

\* client.rs 172-183: the local ship entity
ClientShip ==
  [tf |-> [pos |-> Pos(0, 50), orient |-> 0],
   kt |-> [vel |-> 0, ang_vel |-> 0, mass |-> 1, moment |-> 1]]

\* The spawn transforms a StartRace message can carry
Spawns == {[pos |-> Pos(x, FINISH_LINE_INDEX), orient |-> 0] : x \in {-2, -1}}
StartRaceMsg == [client_id : {LocalId}, position : Spawns]

ShipUpload(tf, kt) == [type |-> "ShipUpload", tf |-> tf, kt |-> kt]
ChatUpload(text) == [type |-> "ChatUpload", text |-> text]

\* client.rs 294-297
ReadyText(ready) == IF ready THEN "Ready!" ELSE "(Not ready)"

\* variant: the lap message carries the lap number after the increment
LapText_next(lap, time) == <<"Lap", lap + 1, time \div 60, time % 60, 0>>

\* client.rs 500-506: lap number, minutes, seconds and milliseconds
LapText(lap, time) == <<"Lap", lap, time \div 60, time % 60, 0>>

\* countdown.rs 51-56, 60-62, 72-76: CountdownAnimation
CountdownAnimation_new == [start_time |-> 0, needs_restart |-> FALSE]
restart(cd) == [cd EXCEPT !.needs_restart = TRUE]
update(cd, time) ==
  IF cd.needs_restart
  THEN [start_time |-> time.time, needs_restart |-> FALSE]
  ELSE cd

\* countdown.rs 80-85: the animation shows 3, 2, 1 and then GO
CountdownLength == 3

\* CountdownAnimation::elapsed and ::match_started, called at client.rs 461,
\* 500 and 513: the time since the countdown started, and whether the
\* pre-race countdown has elapsed
elapsed(cd, time) == time.time - cd.start_time
match_started(cd, time) == elapsed(cd, time) >= CountdownLength

\* curve.rs 61-74 and client.rs 72-74, 495-496
nearest_ctrlp(pos) == pos.near
finish_local_x(tf) == tf.pos.x

\* variant: every position counts as close to the finish line
area_sanity_check_anywhere(tf) == TRUE

\* client.rs 492-493
area_sanity_check(tf) == Abs(nearest_ctrlp(tf.pos) - FINISH_LINE_INDEX) < 3

\* client.rs 495-496
cross_over(last_ship_pos, tf) ==
  finish_local_x(last_ship_pos) < 0 /\ finish_local_x(tf) > 0

\* variant: a valid crossing counts two laps
NextLap_two(lap) == lap + 2

\* client.rs 509
NextLap(lap) == lap + 1

\* variant: the race is over as soon as the lap count reaches N_LAPS
RaceOver_early(lap) == lap >= N_LAPS

\* client.rs 512
RaceOver(lap) == lap > N_LAPS

\* The transform of control point i: the finish line stands at control point
\* FINISH_LINE_INDEX (client.rs 72-74)
CtrlpTf(i) ==
  [pos |-> Pos(IF i = FINISH_LINE_INDEX THEN 0 ELSE -1, i), orient |-> 0]

\* controls.rs 10-84: the outcomes of ship_controller.  Whether the ship is
\* out of the track bounds (controls.rs 25-32), the impulse and the thruster
\* force (34-76) and the turn towards the path (62-69) depend on coordinates
\* and inputs the model does not keep; the controller moves the ship only by
\* the boundary recovery (the vertical lock of 82-83 keeps x and the nearest
\* control point).
ship_controller(dt, tf, kt) ==
  {[tf |-> [pos |-> (IF out THEN CtrlpTf(nearest_ctrlp(tf.pos)) ELSE tf).pos,
            orient |-> o],
    kt |-> [kt EXCEPT !.vel = v, !.ang_vel = IF out THEN 0 ELSE @]] :
     out \in BOOLEAN, o \in Orients, v \in Vels}

\* kinematics.rs 43-51 for the local ship: the index of the nearest control
\* point of the new position is open unless the ship stands still
simulate_local(e, dt) ==
  {[e EXCEPT !.tf = [pos |-> Pos(e.tf.pos.x + e.kt.vel * dt, n),
                     orient |-> e.tf.orient + e.kt.ang_vel * dt]] :
     n \in (IF e.kt.vel * dt = 0 THEN {e.tf.pos.near} ELSE Nears)}

NoInput == [start |-> <<>>, clicked |-> FALSE]

\* The host starts a frame of the client: it delivers the FrameTime, the
\* StartRace messages that have arrived and the state of the ready button.
ClientFrame ==
  /\ client_pc = "idle"
  /\ \E delta \in ClientDeltas, start \in SeqsUpTo(StartRaceMsg, MaxChan),
        clicked \in BOOLEAN :
       /\ client_clock + delta <= MaxClientTime
       /\ \A tf \in {ship_ent.tf} \cup {start[k].position : k \in DOMAIN start} :
            Abs(tf.pos.x + ship_ent.kt.vel * delta) <= MaxX
       /\ client_clock' = client_clock + delta
       /\ client_frame' = Some([delta |-> delta, time |-> client_clock + delta])
       /\ client_inbox' = [start |-> start, clicked |-> clicked]
  /\ outbox' = <<>>
  /\ client_pc' = "game_mode"
  /\ UNCHANGED <<client, ship_ent,
                 server_vars, net_vars, lib_vars>>

\* variant: a StartRace is read only by a client that is not racing
OnStartRace_ifSpectator(cl, m) ==
  IF cl.mode.tag = "Racing" THEN cl
  ELSE [cl EXCEPT !.mode = GameMode_Racing(m.client_id, 0),
                  !.countdown = restart(@),
                  !.last_ship_pos = m.position]

\* variant: a StartRace keeps the lap count of a racing client
OnStartRace_keepLap(cl, m) ==
  [cl EXCEPT !.mode = GameMode_Racing(m.client_id, @.lap),
             !.countdown = restart(@),
             !.last_ship_pos = m.position]

\* client.rs 446-452: what a StartRace does to the ClientState
OnStartRace(cl, m) ==
  [cl EXCEPT !.mode = GameMode_Racing(m.client_id, 0),
             !.countdown = restart(@),
             !.last_ship_pos = m.position]

\* client.rs 440-454; io.add_component takes effect before the next system
ClientState_game_mode ==
  /\ client_pc = "game_mode"
  /\ IF client_inbox.start # <<>>
     THEN /\ client' = OnStartRace(client, Head(client_inbox.start))
          /\ ship_ent' = [ship_ent EXCEPT !.tf = Head(client_inbox.start).position]
     ELSE UNCHANGED <<client, ship_ent>>
  /\ client_pc' = "animation"
  /\ UNCHANGED <<client_frame, client_clock, client_inbox, outbox,
                 server_vars, net_vars, lib_vars>>

\* client.rs 327-330
ClientState_animation ==
  /\ client_pc = "animation"
  /\ client' = IF client_frame = None THEN client
               ELSE [client EXCEPT !.countdown = update(@, client_frame[1])]
  /\ client_pc' = "gui"
  /\ UNCHANGED <<ship_ent, client_frame, client_clock, client_inbox, outbox,
                 server_vars, net_vars, lib_vars>>

\* variant: the ready message carries the flag as it was before the click
ReadySends_stale(ready) ==
  <<ClientReady(LocalId, ~ready), ChatUpload(ReadyText(ready))>>

\* client.rs 304-307: what gui sends after a click, ready being the new flag
ReadySends(ready) ==
  <<ClientReady(LocalId, ready), ChatUpload(ReadyText(ready))>>

\* client.rs 284-309
ClientState_gui ==
  /\ client_pc = "gui"
  /\ IF client.mode.tag = "Spectator" /\ client_inbox.clicked
     THEN /\ client' = [client EXCEPT !.mode.ready = ~@]
          /\ outbox' = outbox \o ReadySends(~client.mode.ready)
     ELSE UNCHANGED <<client, outbox>>
  /\ client_pc' = "kinematics_update"
  /\ UNCHANGED <<ship_ent, client_frame, client_clock, client_inbox,
                 server_vars, net_vars, lib_vars>>

\* client.rs 527-530
ClientState_kinematics_update ==
  /\ client_pc = "kinematics_update"
  /\ IF client_frame = None THEN ship_ent' = ship_ent
     ELSE ship_ent' \in simulate_local(ship_ent, client_frame[1].delta)
  /\ client_pc' = "motion_update"
  /\ UNCHANGED <<client, client_frame, client_clock, client_inbox, outbox,
                 server_vars, net_vars, lib_vars>>

\* client.rs 472-484: the ship after the motion step
Motion(should_be_moving, dt, tf, kt) ==
  IF should_be_moving THEN ship_controller(dt, tf, kt)
  ELSE {[tf |-> tf, kt |-> [kt EXCEPT !.vel = 0, !.ang_vel = 0]]}

\* variant: only a racing client uploads its ship
Uploads_racing(is_racing, tf, kt) ==
  IF is_racing THEN <<ShipUpload(tf, kt)>> ELSE <<>>

\* client.rs 486
Uploads(is_racing, tf, kt) == <<ShipUpload(tf, kt)>>

\* client.rs 497-521: the mode and the messages of the lap detector
LapDetector(md, last_ship_pos, tf, cd, time) ==
  IF /\ area_sanity_check(tf)
     /\ cross_over(last_ship_pos, tf)
     /\ md.tag = "Racing"
  THEN LET lap == NextLap(md.lap)
       IN [msgs |-> (IF md.lap # 9
                     THEN <<ChatUpload(LapText(md.lap, elapsed(cd, time)))>>
                     ELSE <<>>)
                    \o (IF RaceOver(lap)
                        THEN <<Finished(LocalId, elapsed(cd, time))>>
                        ELSE <<>>),
           mode |-> IF RaceOver(lap) THEN GameMode_Spectator(None, FALSE)
                    ELSE GameMode_Racing(md.client_id, lap)]
  ELSE [msgs |-> <<>>, mode |-> md]

\* client.rs 456-524
ClientState_motion_update ==
  /\ client_pc = "motion_update"
  /\ IF client_frame = None
     THEN UNCHANGED <<client, ship_ent, outbox>>
     ELSE LET time == client_frame[1]
              is_racing == client.mode.tag = "Racing"
              should_be_moving ==
                is_racing /\ match_started(client.countdown, time)
          IN \E moved \in Motion(should_be_moving, time.delta,
                                 ship_ent.tf, ship_ent.kt) :
               LET lap == LapDetector(client.mode, client.last_ship_pos,
                                      moved.tf, client.countdown, time)
               IN /\ ship_ent' = moved
                  /\ outbox' = outbox \o Uploads(is_racing, moved.tf, moved.kt)
                                      \o lap.msgs
                  /\ client' = [client EXCEPT !.mode = lap.mode,
                                              !.last_ship_pos = moved.tf]
  /\ client_pc' = "camera"
  /\ UNCHANGED <<client_frame, client_clock, client_inbox,
                 server_vars, net_vars, lib_vars>>

\* client.rs 332-360, 362-370: a spectator that watches nobody starts to
\* watch the ship the "ServerShips" query visits last, if there is one.  The
\* frame is over: the host takes the outbox and drops the inbox.
ClientState_camera ==
  /\ client_pc = "camera"
  /\ IF client.mode.tag = "Spectator" /\ client.mode.watching = None
     THEN \E w \in {None} \cup {Some(c) : c \in Clients} :
            client' = [client EXCEPT !.mode.watching = w]
     ELSE client' = client
  /\ client_frame' = None
  /\ client_inbox' = NoInput
  /\ outbox' = <<>>
  /\ client_pc' = "idle"
  /\ UNCHANGED <<ship_ent, client_clock,
                 server_vars, net_vars, lib_vars>>

\* ------------------------------------------------ curve.rs, kinematics.rs
\* The functions of the curve and motion library, applied to arguments drawn
\* from small sets.  A vector is a record of integer coordinates; an f32
\* curve parameter is kept as a whole number of halves.
V(x, y, z) == [x |-> x, y |-> y, z |-> z]
Dot(a, b) == a.x * b.x + a.y * b.y + a.z * b.z
Add(a, b) == V(a.x + b.x, a.y + b.y, a.z + b.z)
Scale(a, k) == V(a.x * k, a.y * k, a.z * k)

\* The control points a curve is built from
LibCtrlps == {[pos |-> V(x, 0, 0), orient |-> o] : x \in {0, 10}, o \in {0, 1}}

\* Every whole number of halves below F32_EXACT is an f32; in each binade
\* above, the spacing of the f32 values doubles.
Quantum(h) ==
  IF h < F32_EXACT THEN 1
  ELSE IF h < 2 * F32_EXACT THEN 2
  ELSE IF h < 4 * F32_EXACT THEN 4 ELSE 8

\* Round to the nearest multiple of q, a tie to the even multiple
RoundTo(h, q) ==
  LET lo == h - (h % q)
  IN IF 2 * (h % q) < q THEN lo
     ELSE IF 2 * (h % q) > q THEN lo + q
     ELSE IF (lo \div q) % 2 = 0 THEN lo ELSE lo + q

\* The f32 sum of two f32 values
F32Add(a, b) == RoundTo(a + b, Quantum(a + b))

\* usize as f32, f32::floor as usize and f32::fract, on halves
AsF32(n) == 2 * n
Floor(t) == t \div 2
Fract(t) == t % 2

\* The curve parameters tried: 0, 0.5, 3.5, 10, 13.5 and three values at
\* which the f32 spacing is 1 or 2
Params ==
  {0, 1, 7, 20, 27, F32_EXACT - 2, 2 * F32_EXACT - 4, 2 * F32_EXACT}

\* A remainder by zero and an index out of range panic
Panic == [panic |-> TRUE]

\* curve.rs 37-39
Curve_new(ctrlps) == [ctrlps |-> ctrlps]

\* variant: the point in front is the point behind
index_same(c, t) ==
  IF Len(c.ctrlps) = 0 THEN Panic
  ELSE [behind |-> Floor(t) % Len(c.ctrlps),
        in_front |-> Floor(t) % Len(c.ctrlps)]

\* curve.rs 42-51
index(c, t) ==
  IF Len(c.ctrlps) = 0 THEN Panic
  ELSE [behind |-> Floor(t) % Len(c.ctrlps),
        in_front |-> (Floor(t) + 1) % Len(c.ctrlps)]

\* Transform::lerp_slerp with weight w halves; the result is kept doubled
lerp_slerp(a, b, w) ==
  [pos |-> Add(Scale(a.pos, 2 - w), Scale(b.pos, w)),
   orient |-> a.orient * (2 - w) + b.orient * w]

\* curve.rs 54-57
lerp(c, t) ==
  IF Len(c.ctrlps) = 0 THEN Panic
  ELSE lerp_slerp(c.ctrlps[index(c, t).behind + 1],
                  c.ctrlps[index(c, t).in_front + 1], Fract(t))

\* (ctrlpt.pos - pt).length() compares like its square
Dist2(a, b) == Dot(Add(a, Scale(b, -1)), Add(a, Scale(b, -1)))

\* variant: a control point at the same distance replaces the one found
Closer_orEqual(dist, smallest_dist) == dist <= smallest_dist

\* curve.rs 67
Closer(dist, smallest_dist) == dist < smallest_dist

\* curve.rs 65-71: the loop over the control points idx.. with the smallest
\* index and distance found so far
RECURSIVE NearestFrom(_, _, _, _, _)
NearestFrom(c, pt, idx, smallest_idx, smallest_dist) ==
  IF idx >= Len(c.ctrlps) THEN smallest_idx
  ELSE LET dist == Dist2(c.ctrlps[idx + 1].pos, pt)
       IN IF Closer(dist, smallest_dist)
          THEN NearestFrom(c, pt, idx + 1, idx, dist)
          ELSE NearestFrom(c, pt, idx + 1, smallest_idx, smallest_dist)

\* curve.rs 61-74
Curve_nearest_ctrlp(c, pt) == NearestFrom(c, pt, 0, 0, F32_MAX)

\* The points nearest_ctrlp is asked about
LibPoints == {V(x, 0, z) : x \in {-3, 5, 12}, z \in {0, 4}}

\* ClientState::new builds the path from the control points of the track
NewPath ==
  /\ path = None
  /\ \E ctrlps \in SeqsUpTo(LibCtrlps, MaxLen) :
       path' = Some(Curve_new(ctrlps))
  /\ UNCHANGED <<body, call, server_vars, net_vars, local_vars>>

CallLerp ==
  /\ path # None
  /\ \E t \in Params :
       call' = Some([fn |-> "lerp", t |-> t, ix |-> index(path[1], t),
                     out |-> lerp(path[1], t)])
  /\ UNCHANGED <<path, body, server_vars, net_vars, local_vars>>

CallNearest ==
  /\ path # None
  /\ \E pt \in LibPoints :
       call' = Some([fn |-> "nearest_ctrlp", pt |-> pt,
                     out |-> Curve_nearest_ctrlp(path[1], pt)])
  /\ UNCHANGED <<path, body, server_vars, net_vars, local_vars>>

\* ------------------------------------------- kinematics.rs and controls.rs
\* A straight piece of track: control points on the x axis, axes aligned
\* with the world's
Track == <<[pos |-> V(0, 0, 0), orient |-> 0], [pos |-> V(10, 0, 0), orient |-> 0]>>

\* Where an entity is created: on the track, above it, beside it
LibTfs == {[pos |-> V(3, y, z), orient |-> 0] : y \in {0, 6}, z \in {0, 17}}
LibVels == {V(1, 0, 0), V(0, 0, 1)}
LibDts == {1, 2}

\* kinematics.rs 21-30
KinematicPhysics_new(mass) ==
  [vel |-> V(0, 0, 0), mass |-> mass, ang_vel |-> 0, moment |-> mass]

\* variant: the force is added to the velocity undivided
force_undivided(kt, f) == [kt EXCEPT !.vel = Add(@, f)]

\* kinematics.rs 33-35; the quotients are whole for the forces applied here
force(kt, f) ==
  [kt EXCEPT !.vel = Add(@, V(f.x \div kt.mass, f.y \div kt.mass,
                              f.z \div kt.mass))]

\* kinematics.rs 46-49 for an entity in space
Integrate3(e, dt) ==
  [e EXCEPT !.tf = [pos |-> Add(e.tf.pos, Scale(e.kt.vel, dt)),
                    orient |-> e.tf.orient + e.kt.ang_vel * dt]]

\* controls.rs 26-27
TRACK_WIDTH == 32
TRACK_HEIGHT == 10

\* Vec3::X turned by an orientation of so many quarter turns about Y
Heading(orient) ==
  CASE orient % 4 = 0 -> V(1, 0, 0)
    [] orient % 4 = 1 -> V(0, 0, -1)
    [] orient % 4 = 2 -> V(-1, 0, 0)
    [] orient % 4 = 3 -> V(0, 0, 1)

\* controls.rs 19-23: the ship in the frame of its nearest control point
Nearest(c, tf) == c.ctrlps[Curve_nearest_ctrlp(c, tf.pos) + 1]
path_local_space(c, tf) == Add(tf.pos, Scale(Nearest(c, tf).pos, -1))

\* controls.rs 29-31
OutOfBounds(c, tf) ==
  \/ 2 * Abs(path_local_space(c, tf).z) > TRACK_WIDTH
  \/ 2 * Abs(path_local_space(c, tf).y) > TRACK_HEIGHT

\* controls.rs 10-83 with input = [throttle, roll], each 0 or 1 (beyond its
\* deadzone), and ship = [max_impulse].  The turn towards the path
\* (controls.rs 62-69) and the vertical lock (81-82) are exact, and leave
\* orientation and height as they are, when lerp_speed is 0 or the ship
\* already has the wanted orientation and height.
ship_controller_on(dt, ship, input, c, tf, kt) ==
  LET out == OutOfBounds(c, tf)
      tf1 == IF out THEN Nearest(c, tf) ELSE tf
      kt1 == IF out THEN [kt EXCEPT !.vel = V(0, 0, 0), !.ang_vel = 0] ELSE kt
      wanted_impulse ==
        Scale(Heading(tf1.orient), input.throttle * ship.max_impulse)
      kt2 == IF wanted_impulse # V(0, 0, 0)
             THEN force(kt1, Scale(wanted_impulse, dt)) ELSE kt1
      track_rel_vel == kt2.vel
      available_power == Abs(track_rel_vel.x) + Abs(track_rel_vel.z) + 1
      kt3 == [kt2 EXCEPT !.vel = Add(@, V(0, 0, dt * available_power * input.roll))]
      kt4 == [kt3 EXCEPT !.vel = Add(@, V(0, -track_rel_vel.y, 0))]
  IN [tf |-> tf1, kt |-> kt4]

\* The arguments for which ship_controller_on is exact
ExactTurn(dt, ship, input, c, tf, kt) ==
  LET out == OutOfBounds(c, tf)
      orient == IF out THEN Nearest(c, tf).orient ELSE tf.orient
      y == IF out THEN Nearest(c, tf).pos.y ELSE tf.pos.y
      vel == IF out THEN V(0, 0, 0) ELSE kt.vel
      x_vel == vel.x + (Heading(orient).x * input.throttle
                        * ship.max_impulse * dt) \div kt.mass
  IN /\ (ship.max_impulse * dt) % kt.mass = 0
     /\ x_vel = 0 \/ (orient = 0 /\ input.roll = 0 /\ y = Nearest(c, tf).pos.y)
     /\ input.roll # 0 => Abs(x_vel) <= 1

LibInputs == [throttle : {0, 1}, roll : {0, 1}]
LibShip == [max_impulse |-> 2]

CallCount == IF call = None THEN 0 ELSE call[1].n

NewTrack ==
  /\ path = None
  /\ path' = Some(Curve_new(Track))
  /\ UNCHANGED <<body, call, server_vars, net_vars, local_vars>>

\* An entity is created with a Transform and a KinematicPhysics
CreateBody ==
  /\ body = None
  /\ \E tf \in LibTfs, mass \in {1, 2}, ang_vel \in {0, 1} :
       body' = Some([tf |-> tf,
                     kt |-> [KinematicPhysics_new(mass) EXCEPT !.ang_vel = ang_vel]])
  /\ UNCHANGED <<path, call, server_vars, net_vars, local_vars>>

CallForce ==
  /\ body # None
  /\ CallCount < MaxCalls
  /\ \E v \in LibVels :
       /\ body' = Some([body[1] EXCEPT !.kt = force(@, Scale(v, body[1].kt.mass))])
       /\ call' = Some([fn |-> "force", n |-> CallCount + 1, v |-> v,
                        before |-> body[1]])
  /\ UNCHANGED <<path, server_vars, net_vars, local_vars>>

CallSimulate ==
  /\ body # None
  /\ CallCount < MaxCalls
  /\ \E dt \in LibDts :
       /\ body' = Some(Integrate3(body[1], dt))
       /\ call' = Some([fn |-> "simulate", n |-> CallCount + 1, dt |-> dt,
                        before |-> body[1],
                        forced |-> IF call # None /\ call[1].fn = "force"
                                   THEN Some([v |-> call[1].v,
                                              from |-> call[1].before])
                                   ELSE None])
  /\ UNCHANGED <<path, server_vars, net_vars, local_vars>>

CallController ==
  /\ body # None
  /\ path # None
  /\ CallCount < MaxCalls
  /\ \E dt \in LibDts, input \in LibInputs :
       /\ ExactTurn(dt, LibShip, input, path[1], body[1].tf, body[1].kt)
       /\ body' = Some(ship_controller_on(dt, LibShip, input, path[1],
                                          body[1].tf, body[1].kt))
       /\ call' = Some([fn |-> "ship_controller", n |-> CallCount + 1,
                        dt |-> dt, input |-> input, before |-> body[1],
                        recovered |-> OutOfBounds(path[1], body[1].tf)])
  /\ UNCHANGED <<path, server_vars, net_vars, local_vars>>

\* ----------------------------------------------------------- specifications
Init ==
  /\ ships = <<>>
  /\ winner = None
  /\ reset_countdown = 0
  /\ frame = None
  /\ server_clock = 0
  /\ pc = "frame"
  /\ inbox = Unwatched
  /\ sent = <<>>
  /\ least = None
  /\ tick_start = <<>>
  /\ writes = {}
  /\ connected = {}
  /\ mode = [c \in Clients |-> Spectator(FALSE)]
  /\ c2s = [c \in Clients |-> <<>>]
  /\ tick_inbox = <<>>
  /\ s2c = [c \in Clients |-> <<>>]
  /\ client = [mode |-> GameMode_Spectator(None, FALSE),
               countdown |-> CountdownAnimation_new,
               last_ship_pos |-> [pos |-> Pos(0, 50), orient |-> 0]]
  /\ ship_ent = ClientShip
  /\ client_pc = "idle"
  /\ client_frame = None
  /\ client_clock = 0
  /\ client_inbox = NoInput
  /\ outbox = <<>>
  /\ path = None
  /\ body = None
  /\ call = None

\* The initial state with the inbox of one message type under observation
InitFinished == Init /\ watch = "Finished"
InitReady == Init /\ watch = "ClientReady"
InitUpload == Init /\ watch = "ShipUpload"
InitRoster == Init /\ watch = "Connections"
InitClient == Init /\ watch = "StartRace"
InitLib == Init /\ watch = "Library"
InitMotion == Init /\ watch = "Motion"
InitTick == Init /\ watch = "Tick"
InitRace == Init /\ watch = "Race"

\* The server fed by an arbitrary environment: every system reads any
\* messages of the type it subscribes to.
ReadyInputs == SeqsUpTo(ReadyMsg, MaxMsgs)
FinishedInputs == SeqsUpTo(FinishedMsg, MaxMsgs)
UploadInputs == SeqsUpTo(UploadMsg, MaxMsgs)

ConnStep ==
  /\ \E roster \in {None} \cup {Some(r) : r \in SUBSET Clients} :
       conn_update(roster)
  /\ UNCHANGED <<net_vars, local_vars, lib_vars>>
KinematicsStep == kinematics_update /\ UNCHANGED <<net_vars, local_vars, lib_vars>>
ReadyStep ==
  /\ \E msgs \in ReadyInputs : client_state_update(msgs)
  /\ UNCHANGED <<net_vars, local_vars, lib_vars>>
FinishStep ==
  /\ \E msgs \in FinishedInputs : win_reset(msgs)
  /\ UNCHANGED <<net_vars, local_vars, lib_vars>>
RelayStep ==
  /\ \E msgs \in UploadInputs : ship_update(msgs)
  /\ UNCHANGED <<net_vars, local_vars, lib_vars>>
OneFinishStep ==
  /\ \E msgs \in SeqsUpTo(FinishedMsg, 1) : win_reset(msgs)
  /\ UNCHANGED <<net_vars, local_vars, lib_vars>>
NoReadyStep == client_state_update(<<>>) /\ UNCHANGED <<net_vars, local_vars, lib_vars>>
NoFinishStep == win_reset(<<>>) /\ UNCHANGED <<net_vars, local_vars, lib_vars>>
NoUploadStep == ship_update(<<>>) /\ UNCHANGED <<net_vars, local_vars, lib_vars>>

\* The race lifecycle: rosters, ClientReady and Finished events; the history
\* records the Finished inboxes.
Next ==
  \/ BeginFrame
  \/ ConnStep
  \/ KinematicsStep
  \/ ReadyStep
  \/ FinishStep
  \/ NoUploadStep

Spec == InitFinished /\ [][Next]_vars

\* The same lifecycle with at most one Finished event per tick; the history
\* records the ClientReady inboxes.
NextReady ==
  \/ BeginFrame
  \/ ConnStep
  \/ KinematicsStep
  \/ ReadyStep
  \/ OneFinishStep
  \/ NoUploadStep

SpecReady == InitReady /\ [][NextReady]_vars

\* The same lifecycle; the history records, through each tick, the roster
\* conn_update read and the client ids it found.
SpecTick == InitTick /\ [][NextReady]_vars

\* Connections and race starts without Finished events; the history records
\* the ClientReady inboxes.
NextJoin ==
  \/ BeginFrame
  \/ ConnStep
  \/ KinematicsStep
  \/ ReadyStep
  \/ NoFinishStep
  \/ NoUploadStep

SpecJoin == InitReady /\ [][NextJoin]_vars

\* The same lifecycle; the history records the finish times received from
\* racing clients since the last race start.
SpecRace == InitRace /\ [][NextReady]_vars

\* The lifecycle under the host's scheduling: the engine keeps running
\* ticks, each with its FrameTime, and every system of a tick runs.
SpecLive ==
  InitRoster /\ [][Next]_vars /\ WF_vars(Next)

\* The server with its clients: the roster is the set of connected clients
\* and every ClientReady and Finished event is sent by a client.
NextNet ==
  \/ ClientStep
  \/ BeginFrameNet
  \/ ConnStepNet
  \/ KinematicsStepNet
  \/ ReadyStepNet
  \/ FinishStepNet
  \/ RelayStepNet

SpecNet == InitRoster /\ [][NextNet]_vars

\* The ship relay: rosters and ShipUpload events.
NextRelay ==
  \/ BeginFrame
  \/ ConnStep
  \/ KinematicsStep
  \/ NoReadyStep
  \/ NoFinishStep
  \/ RelayStep

SpecRelay == InitUpload /\ [][NextRelay]_vars

\* One client process fed by an arbitrary server and user.
NextClient ==
  \/ ClientFrame
  \/ ClientState_game_mode
  \/ ClientState_animation
  \/ ClientState_gui
  \/ ClientState_kinematics_update
  \/ ClientState_motion_update
  \/ ClientState_camera

SpecClient == InitClient /\ [][NextClient]_vars

\* The library functions called with any of the arguments above
NextLib ==
  \/ NewPath
  \/ CallLerp
  \/ CallNearest

SpecLib == InitLib /\ [][NextLib]_vars

\* An entity on a straight track, moved by forces, by the integrator and by
\* the flight controller
NextMotion ==
  \/ NewTrack
  \/ CreateBody
  \/ CallForce
  \/ CallSimulate
  \/ CallController

SpecMotion == InitMotion /\ [][NextMotion]_vars

\* ------------------------------------------------------------------ claims
Senders(msgs) == {msgs[k].client : k \in DOMAIN msgs}

\* The value carried by the last message of client c in msgs
LastFrom(msgs, c) ==
  LET ks == {k \in DOMAIN msgs : msgs[k].client = c}
  IN msgs[CHOOSE k \in ks : \A j \in ks : j <= k]

\* is_ready of record s once the ClientReady messages msgs are applied
ReadyAfter(s, msgs) ==
  IF s.client_id \in Senders(msgs)
  THEN LastFrom(msgs, s.client_id).ready
  ELSE s.is_ready

\* C1: in a client_state_update step the race starts iff, with the pending
\* ClientReady messages applied, there is a ship record and every record is
\* ready; then every record's client is sent exactly one StartRace and every
\* record ends racing and not ready; otherwise no StartRace is sent and no
\* is_racing flag changes.
C1_ReadyStart ==
  [][(pc = "client_state_update" /\ watch = "ClientReady") =>
       LET msgs == inbox'.msgs
           starts == /\ ships # <<>>
                     /\ \A i \in DOMAIN ships : ReadyAfter(ships[i], msgs)
       IN IF starts
          THEN /\ Len(sent') = Len(ships)
               /\ \A i \in DOMAIN ships :
                    Cardinality({k \in DOMAIN sent' :
                                   sent'[k].to = ships[i].client_id}) = 1
               /\ \A i \in DOMAIN ships' :
                    ships'[i].is_racing /\ ~ships'[i].is_ready
          ELSE /\ sent' = <<>>
               /\ DOMAIN ships' = DOMAIN ships
               /\ \A i \in DOMAIN ships :
                    ships'[i].is_racing = ships[i].is_racing]_vars

\* C1 witness: a race was started for two ship records in this tick
C1_Witness ==
  /\ pc = "win_reset"
  /\ Len(ships) >= 2
  /\ Len(sent) = Len(ships)
  /\ \A i \in DOMAIN ships : ships[i].is_racing

\* C2 (as claimed): a client_state_update step taken while a ship record has
\* is_racing = true sends no StartRace.
C2_NoRetrigger ==
  [][(pc = "client_state_update" /\ anybody_racing(ships)) => sent' = sent]_vars

\* C3: after a win_reset step that leaves a winner recorded, the winner's
\* time is the least finish time processed since the record was last empty,
\* and the winner is a client that reported it (the winner recorded before
\* the step or a sender of this tick); and whenever the step writes the
\* record (no winner before and an event arrives, or an event is strictly
\* earlier than the recorded time, or the record differs afterwards)
\* reset_countdown is the tick's server time plus RESET_TIME.
C3_WinnerSelection ==
  [][(pc = "win_reset" /\ watch = "Finished" /\ frame # None) =>
       LET msgs == inbox'.msgs
           written == \/ (winner = None /\ msgs # <<>>)
                      \/ (winner # None /\ \E k \in DOMAIN msgs :
                                             msgs[k].time < winner[1].time)
                      \/ (winner' # None /\ winner' # winner)
       IN /\ winner' # None =>
               /\ least'[1].min = winner'[1].time
               /\ \A k \in DOMAIN msgs : winner'[1].time <= msgs[k].time
               /\ \/ winner' = winner
                  \/ \E k \in DOMAIN msgs :
                       /\ msgs[k].client = winner'[1].client_id
                       /\ msgs[k].time = winner'[1].time
          /\ written => reset_countdown' = frame[1].time + RESET_TIME]_vars

\* C3 witness: the winner record was filled with time 12 in an earlier tick,
\* client 2 finished at 9 in this tick, and 2 is the recorded winner
C3_Witness ==
  /\ pc = "ship_update"
  /\ winner = Some([client_id |-> 2, time |-> 9])
  /\ least = Some([first |-> 12, min |-> 9])
  /\ inbox.msgs = <<[client |-> 2, time |-> 9]>>
  /\ reset_countdown = frame[1].time + RESET_TIME

\* C4 (as claimed): Finished events whose time equals the recorded winner's
\* time leave the winner's client id and reset_countdown as they were.
C4_TieKeepsWinner ==
  [][(pc = "win_reset" /\ watch = "Finished" /\ frame # None /\ winner # None
        /\ inbox'.msgs # <<>>
        /\ \A k \in DOMAIN inbox'.msgs : inbox'.msgs[k].time = winner[1].time)
       => /\ reset_countdown' = reset_countdown
          /\ winner' # None => winner'[1].client_id = winner[1].client_id]_vars

\* C5: at the end of a win_reset step a winner is recorded iff a winner was
\* recorded before the step or a Finished event arrived in it, and the
\* server time does not exceed reset_countdown, and some ship is racing.
C5_ResetCondition ==
  [][(pc = "win_reset" /\ watch = "Finished" /\ frame # None) =>
       LET had == winner # None \/ inbox'.msgs # <<>>
       IN (winner' # None) <=>
            /\ had
            /\ frame[1].time <= reset_countdown'
            /\ anybody_racing(ships')]_vars

\* C5 witness: the winner survives a tick whose time equals the deadline
C5_Witness ==
  /\ pc = "ship_update"
  /\ winner # None
  /\ frame[1].time = reset_countdown

\* C6: a win_reset step sets is_racing = false on the records of the clients
\* it received Finished from and leaves is_racing of every other record and
\* is_ready of every record unchanged.
C6_FinishedFrame ==
  [][(pc = "win_reset" /\ watch = "Finished" /\ frame # None) =>
       /\ DOMAIN ships' = DOMAIN ships
       /\ \A i \in DOMAIN ships :
            /\ ships'[i].client_id = ships[i].client_id
            /\ ships'[i].is_ready = ships[i].is_ready
            /\ ships'[i].is_racing =
                 IF ships[i].client_id \in Senders(inbox'.msgs)
                 THEN FALSE
                 ELSE ships[i].is_racing]_vars

\* C6 witness: one client finished while another is still racing
C6_Witness ==
  /\ pc = "ship_update"
  /\ inbox.msgs # <<>>
  /\ \E i, j \in DOMAIN ships :
       /\ ships[i].client_id \in Senders(inbox.msgs)
       /\ ~ships[i].is_racing
       /\ ships[j].client_id \notin Senders(inbox.msgs)
       /\ ships[j].is_racing

\* C7: a win_reset step whose Finished events all come from clients with a
\* non-racing record or no record is taken and changes no is_racing or
\* is_ready flag.
C7_FinishedIdempotent ==
  [][(pc = "win_reset" /\ watch = "Finished" /\ frame # None
        /\ \A i \in DOMAIN ships :
             ships[i].client_id \in Senders(inbox'.msgs) => ~ships[i].is_racing)
       => /\ DOMAIN ships' = DOMAIN ships
          /\ \A i \in DOMAIN ships :
               /\ ships'[i].is_racing = ships[i].is_racing
               /\ ships'[i].is_ready = ships[i].is_ready]_vars

\* C7 witness: a Finished event from a client without a ship record has been
\* processed while another client's ship is racing
C7_Witness ==
  /\ pc = "ship_update"
  /\ Senders(inbox.msgs) # {}
  /\ Senders(inbox.msgs) \cap ClientIds(ships) = {}
  /\ anybody_racing(ships)

\* C8: after conn_update has processed a roster, the client ids of the ship
\* records are exactly the roster, no two records carry the same id, the
\* records of clients that stay are untouched and keep their order, and the
\* records of new clients are fresh.
C8_ShipLifecycle ==
  [][(pc = "conn_update" /\ inbox'.msgs # None) =>
       LET roster == inbox'.msgs[1]
       IN /\ ClientIds(ships') = roster
          /\ \A i, j \in DOMAIN ships' :
               ships'[i].client_id = ships'[j].client_id => i = j
          /\ \A i \in DOMAIN ships :
               ships[i].client_id \in roster =>
                 \E j \in DOMAIN ships' : ships'[j] = ships[i]
          /\ \A j \in DOMAIN ships' :
               ships'[j].client_id \notin ClientIds(ships) =>
                 ships'[j] = NewShip(ships'[j].client_id)]_vars

\* C8 witness: a roster was processed that keeps a racing client's record
\* and adds a record for a new client
C8_Witness ==
  /\ pc = "kinematics_update"
  /\ inbox.msgs = Some(Clients)
  /\ \E i, j \in DOMAIN ships :
       /\ ships[i].is_racing
       /\ ships[j] = NewShip(ships[j].client_id)

\* The model's clock has reached its bound: no further tick can start
ClockStopped == \A delta \in Deltas : server_clock + delta > MaxTime

C10_RelayUpload ==
  [][(pc = "ship_update" /\ watch = "ShipUpload") =>
       /\ DOMAIN ships' = DOMAIN ships
       /\ \A i \in DOMAIN ships :
            IF ships[i].client_id \in Senders(inbox'.msgs)
            THEN LET up == LastFrom(inbox'.msgs, ships[i].client_id)
                 IN ships'[i] = [ships[i] EXCEPT !.tf = up.tf, !.kt = up.kt]
            ELSE ships'[i] = ships[i]]_vars

\* C10 witness: at the end of a tick one client's record carries its upload
\* while the other client's record, moved by its velocity, was left alone
C10_Witness ==
  /\ pc = "frame"
  /\ inbox.kind = "ShipUpload"
  /\ \E i, j \in DOMAIN ships :
       /\ Senders(inbox.msgs) = {ships[i].client_id}
       /\ ships[i].tf \in UpTfs
       /\ ships[i].kt \in UpKts
       /\ ships[j].tf \notin UpTfs
       /\ ships[j].kt.vel # 0

\* C11: at the end of a tick, the record of every client that had a record
\* when the tick began and sent no ShipUpload in the tick carries the
\* Transform and KinematicPhysics it had when the tick began.
C11_RelayNoUpload ==
  [][(pc = "ship_update" /\ watch = "ShipUpload") =>
       \A i \in DOMAIN ships' : \A j \in DOMAIN tick_start :
          (/\ ships'[i].client_id = tick_start[j].client_id
           /\ ships'[i].client_id \notin Senders(inbox'.msgs))
          => /\ ships'[i].tf = tick_start[j].tf
             /\ ships'[i].kt = tick_start[j].kt]_vars

\* C12: in one tick no field of a ship record is written by two systems.
C12_SingleWriter ==
  \A w1 \in writes : \A w2 \in writes :
     (w1.client_id = w2.client_id /\ w1.field = w2.field)
     => w1.system = w2.system

\* The client is in a frame in which it is Racing and the countdown has not
\* elapsed (the countdown of a StartRace of this frame starts in animation)
InCountdown ==
  /\ client_frame # None
  /\ client.mode.tag = "Racing"
  /\ ~match_started(client.countdown, client_frame[1])

StartRaceRead == client_pc = "game_mode" /\ client_inbox.start # <<>>

\* C13: a game_mode step that reads a StartRace makes the mode Racing with
\* the client_id of the message and lap 0, restarts the countdown and sets
\* the local ship's transform and last_ship_pos to the spawn transform of
\* the message; no other step brings the mode to Racing.
C13_StartRace ==
  [][/\ StartRaceRead =>
          LET m == Head(client_inbox.start)
          IN /\ client'.mode = GameMode_Racing(m.client_id, 0)
             /\ client'.countdown.needs_restart
             /\ ship_ent'.tf = m.position
             /\ client'.last_ship_pos = m.position
     /\ (client.mode.tag # "Racing" /\ client'.mode.tag = "Racing")
          => StartRaceRead]_vars

\* C13 witness: a StartRace has just been read by a client that was racing
\* in lap 2 or later; it is in lap 0 at the spawn transform
C13_Witness ==
  /\ client_pc = "animation"
  /\ client_inbox.start # <<>>
  /\ client.mode = GameMode_Racing(LocalId, 0)
  /\ client.countdown.needs_restart
  /\ ship_ent.tf = Head(client_inbox.start).position
  /\ client.last_ship_pos = ship_ent.tf
  /\ ship_ent.kt.vel # 0

\* C14: the mode leaves Racing only in a motion_update step in which the
\* lap count comes to exceed N_LAPS; that step sends exactly one Finished,
\* carrying the time since the countdown started, and makes the mode
\* Spectator{watching = None, ready = false}; no other step sends Finished.
C14_RaceFinished ==
  [][IF client.mode.tag = "Racing" /\ client'.mode.tag # "Racing"
     THEN /\ client_pc = "motion_update"
          /\ client.mode.lap + 1 > N_LAPS
          /\ client'.mode = GameMode_Spectator(None, FALSE)
          /\ OfType(outbox', "Finished") =
               <<Finished(LocalId,
                          client_frame[1].time - client.countdown.start_time)>>
     ELSE OfType(outbox', "Finished") = <<>>]_vars

\* C14 witness: the frame in which the race ended: Finished is in the
\* outbox and the mode is Spectator
C14_Witness ==
  /\ client_pc = "camera"
  /\ OfType(outbox, "Finished") # <<>>
  /\ client.mode = GameMode_Spectator(None, FALSE)

\* C15: while the client stays Racing without reading a StartRace, the lap
\* count never decreases and grows by at most 1 per frame (only motion_update
\* changes it); it never exceeds N_LAPS + 1.
C15_LapBound ==
  /\ [][(client.mode.tag = "Racing" /\ client'.mode.tag = "Racing"
          /\ ~StartRaceRead)
        => /\ client'.mode.lap \in {client.mode.lap, client.mode.lap + 1}
           /\ client'.mode.lap # client.mode.lap
                => client_pc = "motion_update"]_vars
  /\ [](client.mode.lap <= N_LAPS + 1)

\* C15 witness: the client races in its last lap
C15_Witness ==
  /\ client_pc = "camera"
  /\ client.mode.tag = "Racing"
  /\ client.mode.lap = N_LAPS

\* C16: motion_update changes the lap count (or ends the race) only if the
\* last position is behind the finish line, the new position is ahead of it
\* and the nearest control point of the new position is less than 3 away
\* from the finish index.
C16_CrossingConditions ==
  [][(client_pc = "motion_update" /\ client'.mode # client.mode)
     => /\ finish_local_x(client.last_ship_pos) < 0
        /\ finish_local_x(ship_ent'.tf) > 0
        /\ Abs(nearest_ctrlp(ship_ent'.tf.pos) - 10) < 3]_vars

\* C16 witness: a racing ship whose last position is behind the finish line
\* has moved ahead of it at control point 50, with the match started, and
\* motion_update is about to run
C16_Witness ==
  /\ client_pc = "motion_update"
  /\ client.mode.tag = "Racing"
  /\ ~InCountdown
  /\ finish_local_x(client.last_ship_pos) < 0
  /\ finish_local_x(ship_ent.tf) > 0
  /\ nearest_ctrlp(ship_ent.tf.pos) = 50

\* C17: while Racing with the match started and the ship near the finish
\* index, motion_update counts a crossing whenever the last position has a
\* negative finish-line x and the new position a non-negative one.
C17_SignFlip ==
  [][(/\ client_pc = "motion_update"
      /\ client.mode.tag = "Racing"
      /\ ~InCountdown
      /\ finish_local_x(client.last_ship_pos) < 0
      /\ finish_local_x(ship_ent'.tf) >= 0
      /\ Abs(nearest_ctrlp(ship_ent'.tf.pos) - 10) < 3)
     => client'.mode # client.mode]_vars

\* C18: in a frame in which the client is Racing and the countdown has not
\* elapsed, kinematics_update and motion_update leave the ship's transform
\* as it is, and motion_update leaves velocity and angular velocity zero.
C18_CountdownFreeze ==
  [][(InCountdown /\ client_pc \in {"kinematics_update", "motion_update"})
     => /\ ship_ent'.tf = ship_ent.tf
        /\ client_pc = "motion_update"
             => ship_ent'.kt.vel = 0 /\ ship_ent'.kt.ang_vel = 0]_vars

\* C19: a motion_update step of a frame in which the client is Racing and
\* the countdown has not elapsed neither changes the lap count nor sends
\* Finished.
C19_NoLapInCountdown ==
  [][(InCountdown /\ client_pc = "motion_update")
     => /\ client'.mode = client.mode
        /\ OfType(outbox', "Finished") = <<>>]_vars

\* C20: in every frame the client sends exactly one ShipUpload: motion_update
\* sends it, carrying the Transform and KinematicPhysics it leaves on the
\* local ship, in any mode and countdown state; no other system sends one.
C20_UploadEveryFrame ==
  [][OfType(outbox', "ShipUpload") =
       IF client_pc = "motion_update"
       THEN <<ShipUpload(ship_ent'.tf, ship_ent'.kt)>>
       ELSE <<>>]_vars

\* C20 witness: a spectating client has uploaded its ship in this frame
C20_Witness ==
  /\ client_pc = "camera"
  /\ client.mode.tag = "Spectator"
  /\ outbox # <<>>
  /\ outbox[1] = ShipUpload(ship_ent.tf, ship_ent.kt)

\* The messages a step has added to the outbox of the frame
SentNow == SubSeq(outbox', Len(outbox) + 1, Len(outbox'))

\* C21: in every frame motion_update moves the ship before the lap detector
\* compares last_ship_pos with the new position, and the ShipUpload of the
\* frame is sent after both: it is the last message motion_update sends.
C21_ClientTickOrder ==
  [][(client_pc = "motion_update" /\ client_frame # None)
     => /\ client'.mode # client.mode
             => cross_over(client.last_ship_pos, ship_ent'.tf)
        /\ SentNow # <<>>
        /\ SentNow[Len(SentNow)].type = "ShipUpload"]_vars

\* C22: a gui step of a Spectator whose ready button was clicked flips the
\* ready flag and sends one ClientReady with the new flag and one chat
\* message; any other gui step (Racing, or no click) changes nothing and
\* sends nothing; no other system sends ClientReady.
C22_ReadyToggle ==
  [][IF client_pc = "gui"
     THEN IF client.mode.tag = "Spectator" /\ client_inbox.clicked
          THEN /\ client'.mode.ready = ~client.mode.ready
               /\ client' = [client EXCEPT !.mode.ready = client'.mode.ready]
               /\ Len(SentNow) = 2
               /\ SentNow[1] = [type |-> "ClientReady", client |-> LocalId,
                                ready |-> client'.mode.ready]
               /\ SentNow[2].type = "ChatUpload"
          ELSE client' = client /\ SentNow = <<>>
     ELSE OfType(SentNow, "ClientReady") = <<>>]_vars

\* C22 witness: a spectator that was ready has clicked again: it is not
\* ready and the ClientReady of the frame says so
C22_Witness ==
  /\ client_pc = "kinematics_update"
  /\ client_inbox.clicked
  /\ client.mode.tag = "Spectator"
  /\ ~client.mode.ready
  /\ OfType(outbox, "ClientReady") = <<ClientReady(LocalId, FALSE)>>

\* The spawn transform of the k-th ship of a race start, k counted from 0
GridSlot(k) == [x |-> -5 * k, y |-> 0, z |-> IF k % 2 = 0 THEN -5 ELSE 5]

\* C23: the StartRace messages of one race start carry pairwise distinct
\* spawn transforms; the k-th message sent (k from 0) carries x = -5 * k,
\* y = 0 and z = -5 for even k, +5 for odd k.
C23_SpawnFanOut ==
  [][(pc = "client_state_update" /\ watch = "ClientReady") =>
       /\ \A k \in DOMAIN sent' : sent'[k].position = GridSlot(k - 1)
       /\ \A j \in DOMAIN sent' : \A k \in DOMAIN sent' :
            j # k => /\ sent'[j].position # sent'[k].position
                     /\ sent'[j].to # sent'[k].to]_vars

\* C23 witness: a race start has sent a StartRace to each of two ships, the
\* second one with the second slot of the grid
C23_Witness ==
  /\ pc = "win_reset"
  /\ watch = "ClientReady"
  /\ Len(sent) = NumClients
  /\ sent[1].position = [x |-> 0, y |-> 0, z |-> -5]
  /\ sent[Len(sent)].position # sent[1].position

\* C24: when a win_reset step clears the record of a winner that has a ship
\* record, no ship record is left with is_racing = true.
C24_ResetClearsRace ==
  [][(/\ pc = "win_reset"
      /\ winner # None
      /\ winner' = None
      /\ winner[1].client_id \in ClientIds(ships))
     => \A i \in DOMAIN ships' : ~ships'[i].is_racing]_vars

\* The last call, if it was a call of fn on a curve with control points
Called(fn) ==
  /\ call # None
  /\ call[1].fn = fn
  /\ path # None
  /\ Len(path[1].ctrlps) >= 1

\* What C25 says of the parameters t and u = t + len of the last lerp call
SamePlace(t, u) ==
  LET c == path[1]
      len == Len(c.ctrlps)
  IN /\ index(c, t) = [behind |-> Floor(t) % len,
                       in_front |-> (Floor(t) + 1) % len]
     /\ index(c, t).behind \in 0..(len - 1)
     /\ index(c, t).in_front \in 0..(len - 1)
     /\ index(c, u) = call[1].ix
     /\ Fract(u) = Fract(t)
     /\ lerp(c, u) = call[1].out

\* C25 (as claimed): for a curve of len >= 1 control points and t >= 0,
\* lerp(t + len) uses the index pair and the weight of lerp(t) and returns
\* the same transform; the pair is (floor(t) mod len, (floor(t) + 1) mod len).
C25_Periodic ==
  Called("lerp") =>
    SamePlace(call[1].t, F32Add(call[1].t, AsF32(Len(path[1].ctrlps))))

\* C25 (amended): the same, for every t whose f32 sum t + len is exact.
C25_PeriodicExact ==
  (/\ Called("lerp")
   /\ F32Add(call[1].t, AsF32(Len(path[1].ctrlps)))
        = call[1].t + AsF32(Len(path[1].ctrlps)))
  => SamePlace(call[1].t, call[1].t + AsF32(Len(path[1].ctrlps)))

\* C25 witness: lerp(13.5) on a curve of three control points, two of them
\* different, blends the control points 1 and 2
C25_Witness ==
  /\ Called("lerp")
  /\ call[1].t = 27
  /\ Len(path[1].ctrlps) = 3
  /\ call[1].ix = [behind |-> 1, in_front |-> 2]
  /\ path[1].ctrlps[2] # path[1].ctrlps[3]
  /\ call[1].out = lerp(path[1], 33)

\* C26: on a curve with control points, nearest_ctrlp returns an index such
\* that no control point is closer to the point than the one at that index,
\* and every control point at a lower index is farther away.
C26_Nearest ==
  Called("nearest_ctrlp") =>
    LET c == path[1]
        i == call[1].out
        d(k) == Dist2(c.ctrlps[k + 1].pos, call[1].pt)
    IN /\ i \in 0..(Len(c.ctrlps) - 1)
       /\ \A k \in 0..(Len(c.ctrlps) - 1) : d(k) >= d(i)
       /\ \A k \in 0..(i - 1) : d(k) > d(i)

\* C26 witness: two control points are at the least distance and the call
\* has returned the first of them, which is not the first of the curve
C26_Witness ==
  /\ Called("nearest_ctrlp")
  /\ call[1].out = 1
  /\ Len(path[1].ctrlps) = 3
  /\ Dist2(path[1].ctrlps[2].pos, call[1].pt)
       = Dist2(path[1].ctrlps[3].pos, call[1].pt)

\* C27: every curve built by Curve::new has at least two control points, so
\* that index and lerp never take a remainder by zero.
C27_NoEmptyCurve ==
  path # None =>
    /\ Len(path[1].ctrlps) >= 2
    /\ (call # None /\ call[1].fn = "lerp") => call[1].out # Panic

\* The last call, if it was a call of fn on the entity
Moved(fn) == call # None /\ call[1].fn = fn /\ body # None

C29_BoundaryRecovery ==
  (Moved("ship_controller") /\ path # None) =>
    LET before == call[1].before
    IN /\ OutOfBounds(path[1], before.tf)
          => /\ call[1].recovered
             /\ body[1].tf = Nearest(path[1], before.tf)
             /\ body[1].kt.vel = V(0, 0, 0)
             /\ body[1].kt.ang_vel = 0
       /\ before.tf = Nearest(path[1], before.tf) => ~call[1].recovered

\* C30: in every server tick conn_update has run before kinematics_update,
\* client_state_update, win_reset and ship_update run.  When it read a
\* roster, each of these systems finds and leaves exactly one ship record
\* per roster client: the record of a client new in the roster is there and
\* the record of a client gone from the roster is not.  So a race start is
\* sent to exactly the roster clients and is held back only by a roster
\* client that is not ready, and a winner is kept only while a roster client
\* is racing.  When it read no roster the records are those the tick found.
C30_TickOrder ==
  [][(pc \in {"kinematics_update", "client_state_update", "win_reset",
              "ship_update"}) =>
      (/\ tick_start # <<>>
       /\ LET seen == tick_start[1]
              roster == IF seen.roster = None THEN seen.before
                        ELSE seen.roster[1]
          IN /\ ClientIds(ships) = roster
             /\ ClientIds(ships') = roster
             /\ Len(ships') = Cardinality(roster)
             /\ pc = "client_state_update" =>
                  IF sent' # sent
                  THEN /\ {sent'[k].to : k \in DOMAIN sent'} = roster
                       /\ \A i \in DOMAIN ships' : ships'[i].is_racing
                  ELSE \/ roster = {}
                       \/ \E i \in DOMAIN ships' : ~ships'[i].is_ready
             /\ (pc = "win_reset" /\ winner' # None) =>
                  \E i \in DOMAIN ships' :
                     ships'[i].client_id \in roster /\ ships'[i].is_racing)]_vars

\* C30 witness: in one tick client 1, not ready, has gone from the roster
\* and client 2 is new in it; client 2 declared itself ready in that tick
\* and the race has started for it
C30_Witness ==
  /\ pc = "win_reset"
  /\ tick_start # <<>>
  /\ tick_start[1].before = {1}
  /\ tick_start[1].roster = Some({2})
  /\ sent # <<>>
  /\ ClientIds(ships) = {2}
  /\ \A i \in DOMAIN ships : ships[i].is_racing

\* The ship record of client c among the records sh
ShipOf(sh, c) == sh[CHOOSE i \in DOMAIN sh : sh[i].client_id = c]

\* A record that is neither racing nor ready
Idle(s) == ~s.is_racing /\ ~s.is_ready

\* C31: a ship record that a step creates is neither racing nor ready, and
\* a record that is neither racing nor ready stays so through every step
\* but a client_state_update that reads a ClientReady(true) of its client:
\* a client that connects during a race is not counted as racing or ready
\* until it has sent ClientReady(true).
C31_NewShipIdle ==
  [][\A c \in ClientIds(ships') :
       /\ c \notin ClientIds(ships) => Idle(ShipOf(ships', c))
       /\ (/\ c \in ClientIds(ships)
           /\ Idle(ShipOf(ships, c))
           /\ ~Idle(ShipOf(ships', c)))
          => /\ pc = "client_state_update"
             /\ \E k \in DOMAIN inbox'.msgs :
                  inbox'.msgs[k] = [client |-> c, ready |-> TRUE]]_vars

\* C31 witness: client 2 connected while client 1 was racing; a
\* client_state_update has run since and client 2's record is still
\* neither racing nor ready
C31_Witness ==
  /\ pc = "win_reset"
  /\ ClientIds(ships) = {1, 2}
  /\ ShipOf(ships, 1).is_racing
  /\ Idle(ShipOf(ships, 2))

\* Client c has a ship record that is racing
RacingIn(sh, c) == c \in ClientIds(sh) /\ ShipOf(sh, c).is_racing

\* C32: a win_reset step whose Finished events all come from clients that
\* have no ship record or whose record is not racing records no winner and
\* leaves reset_countdown as it was (the step may still clear the winner
\* record).
C32_OnlyRacersWin ==
  [][(/\ pc = "win_reset"
      /\ frame # None
      /\ inbox'.msgs # <<>>
      /\ \A k \in DOMAIN inbox'.msgs :
           ~RacingIn(ships, inbox'.msgs[k].client))
     => /\ winner' \in {winner, None}
        /\ reset_countdown' = reset_countdown]_vars

\* C33: when a tick has run win_reset and a winner is recorded, the
\* winner's finish time is less than or equal to every finish time the
\* server has received from a racing client since the last race start.
C33_WinnerIsFastest ==
  (/\ watch = "Race"
   /\ pc \in {"ship_update", "frame"}
   /\ winner # None
   /\ least # None)
  => \A t \in least[1] : winner[1].time <= t

\* C34: no ship record is racing and ready at once, in any state the server
\* reaches with clients that toggle ready only while they are Spectator.
C34_RacingNotReady ==
  \A i \in DOMAIN ships : ~(ships[i].is_racing /\ ships[i].is_ready)

\* No message of the given types from or to client c is on its way or in
\* the hands of the running tick
NoneInFlight(c, types) ==
  /\ \A k \in DOMAIN c2s[c] : c2s[c][k].type \notin types
  /\ \A k \in DOMAIN tick_inbox :
       tick_inbox[k].client = c => tick_inbox[k].type \notin types
  /\ "StartRace" \in types => (s2c[c] = <<>> /\ Outgoing(c) = <<>>)

\* C35: whenever a connected client is Spectator, has a ship record, and no
\* ClientReady or StartRace of that client is in flight, the record's
\* is_ready equals the client's ready flag.
C35_ReadyAgreement ==
  \A c \in connected :
    (/\ mode[c].tag = "Spectator"
     /\ c \in ClientIds(ships)
     /\ NoneInFlight(c, {"ClientReady", "StartRace"}))
    => ShipOf(ships, c).is_ready = mode[c].ready

\* C36: whenever no StartRace or Finished of a connected client is in
\* flight, the client is Racing exactly if its ship record has is_racing.
C36_RacingAgreement ==
  \A c \in connected :
    NoneInFlight(c, {"StartRace", "Finished"})
    => (mode[c].tag = "Racing" <=> RacingIn(ships, c))

\* C37: a game_mode step that reads a StartRace while the client is Racing
\* restarts the race: the lap count is 0, the countdown is restarted, the
\* ship and last_ship_pos are at the spawn transform of the message, and the
\* step sends nothing; no system of a frame that has read a StartRace sends
\* Finished.
C37_RestartWhileRacing ==
  [][/\ (StartRaceRead /\ client.mode.tag = "Racing") =>
          LET m == Head(client_inbox.start)
          IN /\ client'.mode.tag = "Racing"
             /\ client'.mode.lap = 0
             /\ client'.countdown = restart(client.countdown)
             /\ ship_ent'.tf = m.position
             /\ client'.last_ship_pos = m.position
             /\ outbox' = outbox
     /\ client_inbox.start # <<>> => OfType(outbox', "Finished") = <<>>]_vars

\* C37 witness: a client racing in its last lap, ahead of the finish line,
\* is about to read a StartRace with a spawn transform behind it
C37_Witness ==
  /\ StartRaceRead
  /\ client.mode.tag = "Racing"
  /\ client.mode.lap = N_LAPS
  /\ finish_local_x(ship_ent.tf) > 0
  /\ finish_local_x(Head(client_inbox.start).position) < 0

\* The ship has crossed the finish line in this motion_update step
ValidCrossing ==
  /\ client_pc = "motion_update"
  /\ client_frame # None
  /\ area_sanity_check(ship_ent'.tf)
  /\ cross_over(client.last_ship_pos, ship_ent'.tf)

\* C38: the lap count of a racing client is the number of its valid
\* crossings since the last StartRace: a StartRace sets it to 0 and, short
\* of that, it changes only at a valid crossing, by one.  Each valid
\* crossing sends one lap-time message labelled with the lap count before
\* the crossing (0 to N_LAPS); the crossing made with lap count N_LAPS, the
\* (N_LAPS + 1)-th, sends Finished and no other step does; a step that is
\* no valid crossing of a racing client sends no lap-time message.
C38_FinishOnLastLap ==
  [][IF client.mode.tag = "Racing" /\ ValidCrossing
     THEN LET lap == client.mode.lap
              t == client_frame[1].time - client.countdown.start_time
          IN /\ lap \in 0..N_LAPS
             /\ OfType(SentNow, "ChatUpload") =
                  <<ChatUpload(<<"Lap", lap, t \div 60, t % 60, 0>>)>>
             /\ IF lap = N_LAPS
                THEN /\ OfType(SentNow, "Finished") = <<Finished(LocalId, t)>>
                     /\ client'.mode.tag = "Spectator"
                ELSE /\ OfType(SentNow, "Finished") = <<>>
                     /\ client'.mode.tag = "Racing"
                     /\ client'.mode.lap = lap + 1
     ELSE /\ OfType(SentNow, "Finished") = <<>>
          /\ client_pc = "motion_update"
               => OfType(SentNow, "ChatUpload") = <<>>
          /\ (client.mode.tag = "Racing" /\ client'.mode.tag = "Racing")
               => client'.mode.lap = IF StartRaceRead THEN 0
                                     ELSE client.mode.lap]_vars

\* C38 witness: the frame of the fourth valid crossing: the lap-time message
\* labelled 3 and the Finished are in the outbox
C38_Witness ==
  /\ client_pc = "camera"
  /\ client.mode.tag = "Spectator"
  /\ Len(outbox) >= 2
  /\ outbox[Len(outbox)].type = "Finished"
  /\ outbox[Len(outbox) - 1].type = "ChatUpload"
  /\ outbox[Len(outbox) - 1].text[1] = "Lap"
  /\ outbox[Len(outbox) - 1].text[2] = N_LAPS
====
